---- MODULE Spec2Model ----
(***************************************************************************)
(* Model of src/src/bluesky_notif/parser.py: the feed-entry decoder        *)
(* (FeedParser, PostParser, PostRecord, ReplyParser, ReasonParser).        *)
(*                                                                         *)
(* Python values are records [k, s, n, d]: k is the value's class, s its   *)
(* string payload, n its integer payload and d its mapping (a dict's       *)
(* items, a list's items by position, an object's attributes).             *)
(***************************************************************************)
EXTENDS Integers, Sequences, FiniteSets, TLC

VARIABLES
    _feed,          \* FeedParser._feed
    _feed_post,     \* FeedParser._feed_post
    _feed_reply,    \* FeedParser._feed_reply
    _feed_reason,   \* FeedParser._feed_reason
    obj,            \* the parser object the caller holds (last one returned)
    ret,            \* the last operation and its outcome (value or exception)
    lastLoad,       \* history: the value last assigned to FeedParser.feed
    overwrote       \* history: the last assignment found post, reply and
                    \* reason all set by an earlier entry

vars == <<_feed, _feed_post, _feed_reply, _feed_reason, obj, ret, lastLoad, overwrote>>

-----------------------------------------------------------------------------
(* Bounds *)

\* Raw counter values of the generated posts range over -1 .. MaxCount.
MaxCount == 2

-----------------------------------------------------------------------------
(* Python values *)

EmptyMap == [x \in {} |-> x]

Mk(k, s, n, d) == [k |-> k, s |-> s, n |-> n, d |-> d]

None == Mk("None", "", 0, EmptyMap)

PyStr(x) == Mk("str", x, 0, EmptyMap)

PyInt(i) == Mk("int", "", i, EmptyMap)

PyDict(f) == Mk("dict", "", 0, f)

PyList(f) == Mk("list", "", 0, f)

\* A datetime value; s is the instant it denotes (as str(datetime) prints it).
PyDatetime(x) == Mk("datetime", x, 0, EmptyMap)

\* The history variable's value before any assignment to FeedParser.feed.
NoLoad == Mk("noload", "", 0, EmptyMap)

\* The holder's value before any parser was obtained.
NoObject == Mk("noobject", "", 0, EmptyMap)

\* Python truthiness, the test behind `not x`.
Truthy(v) ==
    CASE v.k = "None" -> FALSE
      [] v.k = "str"  -> v.s # ""
      [] v.k = "int"  -> v.n # 0
      [] v.k \in {"dict", "list"} -> DOMAIN v.d # {}
      [] OTHER -> TRUE

-----------------------------------------------------------------------------
(* Outcomes of a call: a returned value or a raised exception *)

Ok(v) == [st |-> "ok", err |-> "", val |-> v]

Raise(e) == [st |-> "raise", err |-> e, val |-> None]

\* Sequencing: an exception in o propagates, otherwise the statements that
\* follow decide the outcome.
Then(o, next) == IF o.st = "raise" THEN o ELSE next

\* self.name: the attribute of an object (None for a value that has none,
\* which no call of the model reads).
Attr(self, name) == IF name \in DOMAIN self.d THEN self.d[name] ELSE None

\* x.get(key): dict.get for a dict; any other class has no attribute get.
get(x, key) ==
    IF x.k = "dict"
    THEN Ok(IF key \in DOMAIN x.d THEN x.d[key] ELSE None)
    ELSE Raise("AttributeError")


-----------------------------------------------------------------------------
(* Enumerations *)

\* ReasonType.REPOST.value
REPOST_value == "app.bsky.feed.defs#reasonRepost"

\* ReasonType.PIN.value
PIN_value == "app.bsky.feed.defs#reasonPin"

\* A member of the Enum ReasonType; a member is not its string value.
ReasonType(name) == Mk("ReasonType", name, 0, EmptyMap)

-----------------------------------------------------------------------------
(* datetime.fromisoformat *)

\* The ISO-8601 strings of the model that fromisoformat accepts.
IsoValid ==
    {"2023-05-01T12:00:00+00:00", "2023-05-01 12:00:00+00:00", "2023-05-01",
     "2024-01-01T00:00:00+00:00"}

\* The instant an accepted string denotes: any separator character stands
\* between date and time, and a date alone is midnight without a zone.
IsoInstant(x) ==
    CASE x = "2023-05-01T12:00:00+00:00" -> "2023-05-01 12:00:00+00:00"
      [] x = "2023-05-01 12:00:00+00:00" -> "2023-05-01 12:00:00+00:00"
      [] x = "2023-05-01"                -> "2023-05-01 00:00:00"
      [] x = "2024-01-01T00:00:00+00:00" -> "2024-01-01 00:00:00+00:00"

\* datetime.fromisoformat(x): TypeError unless x is a str, ValueError for a
\* str that is no ISO-8601 date, otherwise the datetime.
fromisoformat(x) ==
    IF x.k # "str" THEN Raise("TypeError")
    ELSE IF x.s \notin IsoValid THEN Raise("ValueError")
    ELSE Ok(PyDatetime(IsoInstant(x.s)))

-----------------------------------------------------------------------------
(* class PostRecord *)

PostRecord(record) == Mk("PostRecord", "", 0, "_record" :> record)

PostRecord_record_type(self) == get(Attr(self, "_record"), "$type")

PostRecord_text(self) == get(Attr(self, "_record"), "text")

PostRecord_created_at(self) == get(Attr(self, "_record"), "createdAt")

PostRecord_embed(self) == get(Attr(self, "_record"), "embed")

PostRecord_facets(self) == get(Attr(self, "_record"), "facets")

PostRecord_langs(self) == get(Attr(self, "_record"), "langs")

-----------------------------------------------------------------------------
(* class PostParser *)

PostParser(post_) == Mk("PostParser", "", 0, "_post" :> post_)

\* Mutant of _default_count: negative counts are clamped to 0.
default_count_clamped(count) ==
    IF count = None \/ (count.k = "int" /\ count.n < 0) THEN PyInt(0) ELSE count

_default_count(count) == IF count = None THEN PyInt(0) ELSE count

PostParser_uri(self) == get(Attr(self, "_post"), "uri")

PostParser_cid(self) == get(Attr(self, "_post"), "cid")

PostParser_author(self) == get(Attr(self, "_post"), "author")

PostParser_record(self) ==
    LET r == get(Attr(self, "_post"), "record")
    IN  Then(r, Ok(PostRecord(r.val)))

no_embed == PyDict("error" :> PyStr("no_embed"))

\* Mutant of PostParser.embed: `if not embed` in place of `embed is None`.
PostParser_embed_falsy(self) ==
    LET embed == get(Attr(self, "_post"), "embed")
    IN  Then(embed, Ok(IF ~Truthy(embed.val) THEN no_embed ELSE embed.val))

PostParser_embed(self) ==
    LET embed == get(Attr(self, "_post"), "embed")
    IN  Then(embed, Ok(IF embed.val = None THEN no_embed ELSE embed.val))

PostParser_reply_count(self) ==
    LET count == get(Attr(self, "_post"), "replyCount")
    IN  Then(count, Ok(_default_count(count.val)))

PostParser_repost_count(self) ==
    LET count == get(Attr(self, "_post"), "repostCount")
    IN  Then(count, Ok(_default_count(count.val)))

PostParser_like_count(self) ==
    LET count == get(Attr(self, "_post"), "likeCount")
    IN  Then(count, Ok(_default_count(count.val)))

PostParser_quote_count(self) ==
    LET count == get(Attr(self, "_post"), "quoteCount")
    IN  Then(count, Ok(_default_count(count.val)))

PostParser_indexed_at(self) ==
    LET i == get(Attr(self, "_post"), "indexedAt")
    IN  Then(i, fromisoformat(i.val))

-----------------------------------------------------------------------------
(* class ReplyParser *)

ReplyParser(reply_) == Mk("ReplyParser", "", 0, "_r" :> reply_)

_reply(self) == Attr(self, "_r")

ReplyParser_root(self) == get(_reply(self), "root")

ReplyParser_parent(self) == get(_reply(self), "parent")

no_feed_reply_grandparentAuthor ==
    PyDict("error" :> PyStr("no_feed_reply_grandparentAuthor"))

\* Mutant of ReplyParser.grandparent_author: the field is passed through
\* without the sentinel.
ReplyParser_grandparent_author_raw(self) == get(_reply(self), "grandparentAuthor")

ReplyParser_grandparent_author(self) ==
    LET grandparent_author == get(_reply(self), "grandparentAuthor")
    IN  Then(grandparent_author,
             Ok(IF grandparent_author.val = None
                THEN no_feed_reply_grandparentAuthor
                ELSE grandparent_author.val))

-----------------------------------------------------------------------------
(* class ReasonParser *)

ReasonParser(reason_) == Mk("ReasonParser", "", 0, "_r" :> reason_)

empty_reason ==
    PyDict("$type" :> PyStr("") @@ "by" :> PyStr("") @@ "indexedAt" :> PyStr(""))

\* Mutant of ReasonParser._reason: None is not normalised.
reason_unnormalised(self) == Attr(self, "_r")

_reason(self) == IF Attr(self, "_r") = None THEN empty_reason ELSE Attr(self, "_r")

\* A match statement none of whose cases applies falls through, and the
\* function returns None.
ReasonParser_reason_type(self) ==
    LET t == get(_reason(self), "$type")
    IN  Then(t,
             IF ~Truthy(t.val) THEN Ok(ReasonType("NONE"))
             ELSE IF t.val = PyStr(REPOST_value) THEN Ok(ReasonType("REPOST"))
             ELSE IF t.val = PyStr(PIN_value) THEN Ok(ReasonType("PIN"))
             ELSE Ok(None))

ReasonParser_by(self) ==
    LET b == get(_reason(self), "by")
    IN  Then(b, Ok(IF ~Truthy(b.val) THEN PyStr("") ELSE b.val))

ReasonParser_indexed_at(self) ==
    LET i == get(_reason(self), "indexedAt")
    IN  Then(i, IF ~Truthy(i.val) THEN Ok(PyStr("")) ELSE fromisoformat(i.val))

-----------------------------------------------------------------------------
(* class FeedParser: self is the record of its four attributes *)

FeedParser_init ==
    [_feed_post |-> None, _feed_reply |-> None, _feed_reason |-> None,
     _feed |-> None]

\* Mutant of the feed setter: the reply slot is assigned only when the entry
\* carries a reply.
feed_setter_keeps_reply(self, feed) ==
    LET s1 == [self EXCEPT !._feed = feed]
        g1 == get(feed, "post")
        s2 == [s1 EXCEPT !._feed_post = g1.val]
        g2 == get(feed, "reply")
        s3 == IF g2.val = None THEN s2 ELSE [s2 EXCEPT !._feed_reply = g2.val]
        g3 == get(feed, "reason")
        s4 == [s3 EXCEPT !._feed_reason = g3.val]
    IN  IF g1.st = "raise" THEN [self |-> s1, out |-> g1]
        ELSE [self |-> s4, out |-> Ok(None)]

\* The attributes after `fp.feed = feed`, and the assignment's outcome.  The
\* four assignments run in order; the first feed.get that raises ends the
\* setter with the earlier assignments done.
feed_setter(self, feed) ==
    LET s1 == [self EXCEPT !._feed = feed]
        g1 == get(feed, "post")
        s2 == [s1 EXCEPT !._feed_post = g1.val]
        g2 == get(feed, "reply")
        s3 == [s2 EXCEPT !._feed_reply = g2.val]
        g3 == get(feed, "reason")
        s4 == [s3 EXCEPT !._feed_reason = g3.val]
    IN  IF g1.st = "raise" THEN [self |-> s1, out |-> g1]
        ELSE IF g2.st = "raise" THEN [self |-> s2, out |-> g2]
        ELSE IF g3.st = "raise" THEN [self |-> s3, out |-> g3]
        ELSE [self |-> s4, out |-> Ok(None)]

feed_getter(self) == Ok(self._feed)

no_feed_reply == PyDict("error" :> PyStr("no_feed_reply"))

\* Mutant of FeedParser.post: no check that a post was loaded.
FeedParser_post_unchecked(self) == Ok(PostParser(self._feed_post))

FeedParser_post(self) ==
    IF self._feed_post = None THEN Raise("ValueError")
    ELSE Ok(PostParser(self._feed_post))

\* Mutant of FeedParser.reply: the reply slot is wrapped as it is.
FeedParser_reply_no_sentinel(self) == Ok(ReplyParser(self._feed_reply))

FeedParser_reply(self) ==
    Ok(IF self._feed_reply = None
       THEN ReplyParser(no_feed_reply)
       ELSE ReplyParser(self._feed_reply))

FeedParser_reason(self) == Ok(ReasonParser(self._feed_reason))

-----------------------------------------------------------------------------
(* Feed entries: the values Request.feed() hands to FeedParser.feed *)

\* Marks a key the JSON object does not carry (never a value of the program).
Absent == Mk("absent", "", 0, EmptyMap)

Field(key, v) == IF v = Absent THEN EmptyMap ELSE key :> v

Author(did) == PyDict("did" :> PyStr(did) @@ "handle" :> PyStr("a.bsky.social"))

\* A reply reference: what root / parent resolved to (ReplyType's values).
RefPostView ==
    PyDict("$type" :> PyStr("app.bsky.feed.defs#postView")
           @@ "uri" :> PyStr("at://did:plc:abc/app.bsky.feed.post/1"))

RefNotFound ==
    PyDict("$type" :> PyStr("app.bsky.feed.defs#notFoundPost")
           @@ "notFound" :> PyInt(1))

RefBlocked ==
    PyDict("$type" :> PyStr("app.bsky.feed.defs#blockedPost")
           @@ "blocked" :> PyInt(1))

ImagesEmbed ==
    PyDict("$type" :> PyStr("app.bsky.embed.images#view")
           @@ "images" :> PyList("0" :> PyStr("img")))

FullRecord ==
    PyDict("$type" :> PyStr("app.bsky.feed.post")
           @@ "text" :> PyStr("hello")
           @@ "createdAt" :> PyStr("2023-05-01T12:00:00+00:00")
           @@ "embed" :> PyDict("$type" :> PyStr("app.bsky.embed.images"))
           @@ "facets" :> PyList("0" :> PyDict("index" :> PyInt(0)))
           @@ "langs" :> PyList("0" :> PyStr("en")))

SparseRecord ==
    PyDict("text" :> PyStr("") @@ "langs" :> None @@ "facets" :> PyList(EmptyMap))

FullPost ==
    PyDict("uri" :> PyStr("at://did:plc:abc/app.bsky.feed.post/2")
           @@ "cid" :> PyStr("bafyrei")
           @@ "author" :> Author("did:plc:abc")
           @@ "record" :> FullRecord
           @@ "embed" :> ImagesEmbed
           @@ "replyCount" :> PyInt(MaxCount)
           @@ "repostCount" :> PyInt(0)
           @@ "likeCount" :> PyInt(-1)
           @@ "indexedAt" :> PyStr("2023-05-01T12:00:00+00:00"))

\* Every optional field present and null, a date that is no date.
NullPost ==
    PyDict("uri" :> None @@ "embed" :> None @@ "record" :> None
           @@ "replyCount" :> None @@ "repostCount" :> None
           @@ "likeCount" :> None @@ "quoteCount" :> None
           @@ "indexedAt" :> PyStr("not-a-date"))

\* Fields present with values that are false in a Python condition.
FalsyPost ==
    PyDict("uri" :> PyStr("") @@ "embed" :> PyDict(EmptyMap)
           @@ "record" :> PyDict(EmptyMap)
           @@ "replyCount" :> PyInt(0) @@ "quoteCount" :> PyInt(0)
           @@ "indexedAt" :> PyStr("2023-05-01"))

\* Fields of the wrong shape.
MalformedPost ==
    PyDict("embed" :> PyStr("embed") @@ "record" :> PyStr("record")
           @@ "likeCount" :> PyStr("5") @@ "indexedAt" :> PyInt(0))

RecordPost(r) ==
    PyDict("cid" :> PyStr("bafyrec") @@ Field("record", r)
           @@ "indexedAt" :> PyStr("2023-05-01 12:00:00+00:00"))

CountPost(c) ==
    PyDict("replyCount" :> PyInt(c) @@ "repostCount" :> PyInt(c)
           @@ "likeCount" :> PyInt(c) @@ "quoteCount" :> PyInt(c))

Posts ==
    {Absent, None, FullPost, NullPost, FalsyPost, MalformedPost,
     PyDict(EmptyMap), PyStr("post")}
    \cup {RecordPost(r) : r \in {SparseRecord}}
    \cup {CountPost(c) : c \in -1 .. MaxCount}

FullReply ==
    PyDict("root" :> RefPostView @@ "parent" :> RefNotFound
           @@ "grandparentAuthor" :> Author("did:plc:gp"))

Replies ==
    {Absent, None, FullReply,
     PyDict("root" :> RefBlocked @@ "parent" :> RefPostView),
     PyDict("parent" :> None @@ "grandparentAuthor" :> None),
     PyDict(EmptyMap), PyStr("reply")}

RepostReason ==
    PyDict("$type" :> PyStr(REPOST_value) @@ "by" :> Author("did:plc:abc")
           @@ "indexedAt" :> PyStr("2024-01-01T00:00:00+00:00"))

Reasons ==
    {Absent, None, RepostReason,
     PyDict("$type" :> PyStr(PIN_value)),
     PyDict("$type" :> PyStr("app.bsky.feed.defs#reasonOther")
            @@ "by" :> PyStr("did:plc:abc") @@ "indexedAt" :> PyStr("not-a-date")),
     PyDict("$type" :> PyInt(1) @@ "by" :> None @@ "indexedAt" :> None),
     PyDict("$type" :> PyStr("") @@ "by" :> PyStr("") @@ "indexedAt" :> PyStr("")),
     PyDict(EmptyMap), PyStr("reason")}

Entry(p, r, s) == PyDict(Field("post", p) @@ Field("reply", r) @@ Field("reason", s))

Entries ==
    {Entry(p, Absent, Absent) : p \in Posts}
    \cup {Entry(FullPost, r, Absent) : r \in Replies}
    \cup {Entry(FullPost, Absent, s) : s \in Reasons}
    \cup {Entry(p, r, s) : p \in {Absent, FalsyPost}, r \in {None, FullReply},
                           s \in {None, RepostReason}}

\* What a caller may assign to FeedParser.feed: an entry, or a value that is
\* no map (the annotation `feed: dict` is not enforced).
LoadValues == Entries \cup {None, PyStr("feed")}

-----------------------------------------------------------------------------
(* The state machine: one FeedParser, one caller *)

Self ==
    [_feed_post |-> _feed_post, _feed_reply |-> _feed_reply,
     _feed_reason |-> _feed_reason, _feed |-> _feed]

Called(op, out) == [op |-> op, out |-> out]

Init ==
    /\ _feed = FeedParser_init._feed
    /\ _feed_post = FeedParser_init._feed_post
    /\ _feed_reply = FeedParser_init._feed_reply
    /\ _feed_reason = FeedParser_init._feed_reason
    /\ obj = NoObject
    /\ ret = Called("FeedParser", Ok(None))
    /\ lastLoad = NoLoad
    /\ overwrote = FALSE

\* fp.feed = feed
SetFeed(feed) ==
    LET r == feed_setter(Self, feed)
    IN  /\ _feed' = r.self._feed
        /\ _feed_post' = r.self._feed_post
        /\ _feed_reply' = r.self._feed_reply
        /\ _feed_reason' = r.self._feed_reason
        /\ ret' = Called("feed=", r.out)
        /\ lastLoad' = feed
        /\ overwrote' = (_feed_post # None /\ _feed_reply # None /\ _feed_reason # None)
        /\ UNCHANGED obj

\* A FeedParser method that leaves the attributes alone; a returned parser
\* becomes the object the caller holds.
FeedCall(op, out) ==
    /\ ret' = Called(op, out)
    /\ obj' = IF out.st = "ok" /\ out.val.k \in {"PostParser", "ReplyParser", "ReasonParser"}
              THEN out.val ELSE obj
    /\ UNCHANGED <<_feed, _feed_post, _feed_reply, _feed_reason, lastLoad, overwrote>>

GetFeed == FeedCall("feed", feed_getter(Self))

CallPost == FeedCall("post", FeedParser_post(Self))

CallReply == FeedCall("reply", FeedParser_reply(Self))

CallReason == FeedCall("reason", FeedParser_reason(Self))

\* An accessor of the held object of class cls.
Access(cls, op, out) ==
    /\ obj.k = cls
    /\ ret' = Called(op, out)
    /\ UNCHANGED <<_feed, _feed_post, _feed_reply, _feed_reason, obj, lastLoad, overwrote>>

CallUri == Access("PostParser", "PostParser.uri", PostParser_uri(obj))

CallCid == Access("PostParser", "PostParser.cid", PostParser_cid(obj))

CallAuthor == Access("PostParser", "PostParser.author", PostParser_author(obj))

\* post.record(): the PostRecord returned becomes the held object.
CallRecord ==
    /\ obj.k = "PostParser"
    /\ LET out == PostParser_record(obj)
       IN  /\ ret' = Called("PostParser.record", out)
           /\ obj' = IF out.st = "ok" THEN out.val ELSE obj
    /\ UNCHANGED <<_feed, _feed_post, _feed_reply, _feed_reason, lastLoad, overwrote>>

CallEmbed == Access("PostParser", "PostParser.embed", PostParser_embed(obj))

CallReplyCount ==
    Access("PostParser", "PostParser.reply_count", PostParser_reply_count(obj))

CallRepostCount ==
    Access("PostParser", "PostParser.repost_count", PostParser_repost_count(obj))

CallLikeCount ==
    Access("PostParser", "PostParser.like_count", PostParser_like_count(obj))

CallQuoteCount ==
    Access("PostParser", "PostParser.quote_count", PostParser_quote_count(obj))

CallPostIndexedAt ==
    Access("PostParser", "PostParser.indexed_at", PostParser_indexed_at(obj))

CallRecordType ==
    Access("PostRecord", "PostRecord.record_type", PostRecord_record_type(obj))

CallText == Access("PostRecord", "PostRecord.text", PostRecord_text(obj))

CallCreatedAt ==
    Access("PostRecord", "PostRecord.created_at", PostRecord_created_at(obj))

CallRecordEmbed == Access("PostRecord", "PostRecord.embed", PostRecord_embed(obj))

CallFacets == Access("PostRecord", "PostRecord.facets", PostRecord_facets(obj))

CallLangs == Access("PostRecord", "PostRecord.langs", PostRecord_langs(obj))

CallRoot == Access("ReplyParser", "ReplyParser.root", ReplyParser_root(obj))

CallParent == Access("ReplyParser", "ReplyParser.parent", ReplyParser_parent(obj))

CallGrandparentAuthor ==
    Access("ReplyParser", "ReplyParser.grandparent_author",
           ReplyParser_grandparent_author(obj))

CallReasonType ==
    Access("ReasonParser", "ReasonParser.reason_type", ReasonParser_reason_type(obj))

CallBy == Access("ReasonParser", "ReasonParser.by", ReasonParser_by(obj))

CallReasonIndexedAt ==
    Access("ReasonParser", "ReasonParser.indexed_at", ReasonParser_indexed_at(obj))

Load == \E feed \in LoadValues : SetFeed(feed)

Next ==
    \/ Load
    \/ GetFeed
    \/ CallPost
    \/ CallReply
    \/ CallReason
    \/ CallUri
    \/ CallCid
    \/ CallAuthor
    \/ CallRecord
    \/ CallEmbed
    \/ CallReplyCount
    \/ CallRepostCount
    \/ CallLikeCount
    \/ CallQuoteCount
    \/ CallPostIndexedAt
    \/ CallRecordType
    \/ CallText
    \/ CallCreatedAt
    \/ CallRecordEmbed
    \/ CallFacets
    \/ CallLangs
    \/ CallRoot
    \/ CallParent
    \/ CallGrandparentAuthor
    \/ CallReasonType
    \/ CallBy
    \/ CallReasonIndexedAt

Spec == Init /\ [][Next]_vars

-----------------------------------------------------------------------------
(* Properties *)

\* The raw field of a JSON object: its value, or None when the key is missing.
FieldOf(m, key) == IF key \in DOMAIN m.d THEN m.d[key] ELSE None

\* Everything a caller can observe through post(), reply(), reason() and
\* their accessors: each call's returned value or raised exception.
Observed(self) ==
    LET p == FeedParser_post(self)
        rec == Then(p, PostParser_record(p.val))
        r == FeedParser_reply(self)
        s == FeedParser_reason(self)
    IN  <<p, Then(p, PostParser_uri(p.val)), Then(p, PostParser_cid(p.val)),
          Then(p, PostParser_author(p.val)), rec, Then(p, PostParser_embed(p.val)),
          Then(p, PostParser_reply_count(p.val)), Then(p, PostParser_repost_count(p.val)),
          Then(p, PostParser_like_count(p.val)), Then(p, PostParser_quote_count(p.val)),
          Then(p, PostParser_indexed_at(p.val)),
          Then(rec, PostRecord_record_type(rec.val)), Then(rec, PostRecord_text(rec.val)),
          Then(rec, PostRecord_created_at(rec.val)), Then(rec, PostRecord_embed(rec.val)),
          Then(rec, PostRecord_facets(rec.val)), Then(rec, PostRecord_langs(rec.val)),
          r, Then(r, ReplyParser_root(r.val)), Then(r, ReplyParser_parent(r.val)),
          Then(r, ReplyParser_grandparent_author(r.val)),
          s, Then(s, ReasonParser_reason_type(s.val)), Then(s, ReasonParser_by(s.val)),
          Then(s, ReasonParser_indexed_at(s.val))>>

\* A freshly constructed FeedParser on which only B was loaded.
Fresh(B) == feed_setter(FeedParser_init, B).self

\* C1: after any sequence of assignments to FeedParser.feed that ends with an
\* entry B (a map), everything post(), reply(), reason() and their accessors
\* return or raise is what a fresh FeedParser loaded with B alone returns or
\* raises; nothing of an earlier entry remains.
C1_LoadReplacesEntry ==
    lastLoad.k = "dict" => Observed(Self) = Observed(Fresh(lastLoad))

\* C1 witness: an entry without post, reply and reason was loaded over one
\* that had all three, and post() then raised.
C1_Witness ==
    /\ overwrote
    /\ lastLoad.k = "dict"
    /\ FieldOf(lastLoad, "post") = None
    /\ FieldOf(lastLoad, "reply") = None
    /\ FieldOf(lastLoad, "reason") = None
    /\ ret = Called("post", Raise("ValueError"))

\* C2: between operations the current-entry slot and the cached post, reply
\* and reason slots all come from one entry, or are all still unset, also
\* after an assignment that raised.
C2_LoadIsAtomic ==
    \/ Self = FeedParser_init
    \/ /\ _feed.k = "dict"
       /\ _feed_post = FieldOf(_feed, "post")
       /\ _feed_reply = FieldOf(_feed, "reply")
       /\ _feed_reason = FieldOf(_feed, "reason")

\* C3: post() on a FeedParser nothing was loaded into raises ValueError and
\* hands out no parser; after an entry carrying a post was loaded, post()
\* returns a PostParser over that entry's post.
C3_PostNeedsEntry ==
    /\ lastLoad = NoLoad => FeedParser_post(Self) = Raise("ValueError")
    /\ (lastLoad = NoLoad /\ ret.op = "post") =>
            /\ ret.out = Raise("ValueError")
            /\ obj.k # "PostParser"
    /\ (lastLoad.k = "dict" /\ FieldOf(lastLoad, "post") # None) =>
            /\ FeedParser_post(Self) = Ok(PostParser(FieldOf(lastLoad, "post")))
            /\ ret.op = "post" =>
                    /\ ret.out = Ok(PostParser(FieldOf(lastLoad, "post")))
                    /\ obj = PostParser(FieldOf(lastLoad, "post"))

\* C3 witness: post() was called before any load and raised ValueError.
C3_Witness ==
    /\ lastLoad = NoLoad
    /\ ret = Called("post", Raise("ValueError"))

\* C4: before any load and after loads of map-shaped entries, reply() and
\* reason() return a parser and do not raise; reply() wraps the sentinel
\* {error: "no_feed_reply"} when the current entry has no reply and the
\* entry's own reply object otherwise.
C4_ReplyReasonAlwaysSucceed ==
    LET r == FeedParser_reply(Self)
        s == FeedParser_reason(Self)
        sentinel == PyDict("error" :> PyStr("no_feed_reply"))
        wrapped ==
            IF lastLoad = NoLoad \/ FieldOf(lastLoad, "reply") = None
            THEN sentinel ELSE FieldOf(lastLoad, "reply")
    IN  /\ r.st = "ok" /\ r.val.k = "ReplyParser"
        /\ s.st = "ok" /\ s.val.k = "ReasonParser"
        /\ ret.op = "reply" => ret.out.st = "ok" /\ obj = ret.out.val
        /\ ret.op = "reason" => ret.out.st = "ok" /\ obj = ret.out.val
        /\ (lastLoad = NoLoad \/ lastLoad.k = "dict") =>
                /\ r.val = ReplyParser(wrapped)
                /\ ret.op = "reply" => obj = ReplyParser(wrapped)

\* C4 witness: reply() was called on an entry without a reply, loaded over an
\* entry that had one, and returned the parser over the sentinel.
C4_Witness ==
    /\ overwrote
    /\ lastLoad.k = "dict"
    /\ FieldOf(lastLoad, "reply") = None
    /\ ret.op = "reply"
    /\ obj = ReplyParser(PyDict("error" :> PyStr("no_feed_reply")))

\* C5: reason_type() never raises; the repost tag gives REPOST, the pin tag
\* PIN, an empty or missing tag NONE, and any other tag NONE or the raw tag.
C5_ReasonTypeTotal ==
    (ret.op = "ReasonParser.reason_type" /\ obj.d["_r"].k \in {"dict", "None"}) =>
        LET t == IF obj.d["_r"] = None THEN None ELSE FieldOf(obj.d["_r"], "$type")
        IN  /\ ret.out.st = "ok"
            /\ CASE t = PyStr(REPOST_value) -> ret.out.val = ReasonType("REPOST")
                 [] t = PyStr(PIN_value) -> ret.out.val = ReasonType("PIN")
                 [] t \in {None, PyStr("")} -> ret.out.val = ReasonType("NONE")
                 [] OTHER -> ret.out.val \in {ReasonType("NONE"), t}

ReasonAccessors ==
    {"ReasonParser.reason_type", "ReasonParser.by", "ReasonParser.indexed_at"}

\* The state part of C6.
C6_AbsentReasonState ==
    LET absent == ReasonParser(None)
    IN  /\ (lastLoad = NoLoad
            \/ (lastLoad.k = "dict" /\ FieldOf(lastLoad, "reason") = None)) =>
                /\ FeedParser_reason(Self) = Ok(absent)
                /\ ret.op = "reason" => obj = absent
        /\ ReasonParser_reason_type(absent) = Ok(ReasonType("NONE"))
        /\ ReasonParser_by(absent) = Ok(PyStr(""))
        /\ ReasonParser_indexed_at(absent) = Ok(PyStr(""))
        /\ (obj = absent /\ ret.op = "ReasonParser.reason_type") =>
                ret.out = Ok(ReasonType("NONE"))
        /\ (obj = absent /\ ret.op = "ReasonParser.by") => ret.out = Ok(PyStr(""))
        /\ (obj = absent /\ ret.op = "ReasonParser.indexed_at") =>
                ret.out = Ok(PyStr(""))

\* The step part of C6: an accessor of a ReasonParser leaves the parser's
\* stored reason and the FeedParser's slots as they were.
C6_AccessorStep ==
    ret'.op \in ReasonAccessors =>
        /\ obj' = obj
        /\ <<_feed, _feed_post, _feed_reply, _feed_reason>>'
                = <<_feed, _feed_post, _feed_reply, _feed_reason>>

\* C6: with the reason absent (a ReasonParser over None; FeedParser.reason()
\* before any load or on an entry without a reason, whatever came before),
\* reason_type() is NONE, by() is "" and indexed_at() is "" unparsed, none
\* raising; every call normalises anew and no accessor changes the stored
\* reason.
C6_AbsentReason == []C6_AbsentReasonState /\ [][C6_AccessorStep]_vars

\* C6 witness: an entry without a reason was loaded over one that had a
\* reason, and indexed_at() of its ReasonParser returned "".
C6_Witness ==
    /\ overwrote
    /\ lastLoad.k = "dict"
    /\ FieldOf(lastLoad, "reason") = None
    /\ obj = ReasonParser(None)
    /\ ret = Called("ReasonParser.indexed_at", Ok(PyStr("")))

CounterField ==
    [op \in {"PostParser.reply_count", "PostParser.repost_count",
             "PostParser.like_count", "PostParser.quote_count"} |->
        CASE op = "PostParser.reply_count" -> "replyCount"
          [] op = "PostParser.repost_count" -> "repostCount"
          [] op = "PostParser.like_count" -> "likeCount"
          [] op = "PostParser.quote_count" -> "quoteCount"]

\* C7: each of the four counters returns 0 when its field is missing or null
\* and the raw value unchanged otherwise (0 and negative values included);
\* it never returns None.
C7_CounterDefaultsToZero ==
    (ret.op \in DOMAIN CounterField /\ obj.d["_post"].k = "dict") =>
        LET raw == FieldOf(obj.d["_post"], CounterField[ret.op])
        IN  /\ ret.out.st = "ok"
            /\ ret.out.val # None
            /\ raw = None => ret.out.val = PyInt(0)
            /\ raw # None => ret.out.val = raw

\* C7 witness: a counter whose raw value is negative was read and came back
\* unchanged.
C7_Witness ==
    /\ ret.op = "PostParser.like_count"
    /\ obj.d["_post"].k = "dict"
    /\ FieldOf(obj.d["_post"], "likeCount") = PyInt(-1)
    /\ ret.out = Ok(PyInt(-1))

\* C8: embed() returns {error: "no_embed"} when the embed field is absent and
\* the embed value unchanged when it is present, whatever its shape.
C8_EmbedSentinelOnlyWhenAbsent ==
    (ret.op = "PostParser.embed" /\ obj.d["_post"].k = "dict") =>
        LET raw == FieldOf(obj.d["_post"], "embed")
        IN  /\ raw = None => ret.out = Ok(PyDict("error" :> PyStr("no_embed")))
            /\ raw # None => ret.out = Ok(raw)

\* C8 witness: embed() was called on a post whose embed is the empty object
\* and returned it.
C8_Witness ==
    /\ ret.op = "PostParser.embed"
    /\ obj.d["_post"].k = "dict"
    /\ FieldOf(obj.d["_post"], "embed") = PyDict(EmptyMap)
    /\ ret.out = Ok(PyDict(EmptyMap))

\* What grandparent_author() is to return for the raw field gp.
ExpectedGrandparent(gp) ==
    IF gp = None THEN PyDict("error" :> PyStr("no_feed_reply_grandparentAuthor"))
    ELSE gp

\* C9: for a loaded entry with a reply object, reply().root() and
\* reply().parent() return the raw root and parent; without a reply,
\* reply().root() returns None and does not raise; grandparent_author()
\* returns the raw grandparentAuthor when present and the sentinel
\* {error: "no_feed_reply_grandparentAuthor"} when absent, with or without
\* the outer reply object.
C9_ReplyPassThrough ==
    LET raw == FieldOf(lastLoad, "reply")
        rp == FeedParser_reply(Self).val
    IN  /\ (lastLoad.k = "dict" /\ raw.k = "dict") =>
                /\ ReplyParser_root(rp) = Ok(FieldOf(raw, "root"))
                /\ ReplyParser_parent(rp) = Ok(FieldOf(raw, "parent"))
                /\ ReplyParser_grandparent_author(rp)
                        = Ok(ExpectedGrandparent(FieldOf(raw, "grandparentAuthor")))
        /\ (lastLoad.k = "dict" /\ raw = None) =>
                /\ ReplyParser_root(rp) = Ok(None)
                /\ ReplyParser_grandparent_author(rp) = Ok(ExpectedGrandparent(None))
        /\ (obj.k = "ReplyParser" /\ obj.d["_r"].k = "dict") =>
                /\ ret.op = "ReplyParser.root" =>
                        ret.out = Ok(FieldOf(obj.d["_r"], "root"))
                /\ ret.op = "ReplyParser.parent" =>
                        ret.out = Ok(FieldOf(obj.d["_r"], "parent"))
                /\ ret.op = "ReplyParser.grandparent_author" =>
                        ret.out = Ok(ExpectedGrandparent(
                                        FieldOf(obj.d["_r"], "grandparentAuthor")))

\* C9 witness: grandparent_author() was called on the reply of an entry that
\* has a reply object without that field, and returned the sentinel.
C9_Witness ==
    /\ lastLoad.k = "dict"
    /\ FieldOf(lastLoad, "reply").k = "dict"
    /\ "root" \in DOMAIN FieldOf(lastLoad, "reply").d
    /\ obj = ReplyParser(FieldOf(lastLoad, "reply"))
    /\ FieldOf(obj.d["_r"], "grandparentAuthor") = None
    /\ ret = Called("ReplyParser.grandparent_author",
                    Ok(PyDict("error" :> PyStr("no_feed_reply_grandparentAuthor"))))

RecordField ==
    [op \in {"PostRecord.record_type", "PostRecord.text", "PostRecord.created_at",
             "PostRecord.embed", "PostRecord.facets", "PostRecord.langs"} |->
        CASE op = "PostRecord.record_type" -> "$type"
          [] op = "PostRecord.text" -> "text"
          [] op = "PostRecord.created_at" -> "createdAt"
          [] op = "PostRecord.embed" -> "embed"
          [] op = "PostRecord.facets" -> "facets"
          [] op = "PostRecord.langs" -> "langs"]

\* C10: record() returns a PostRecord whatever the post's record field holds,
\* absent included, and each PostRecord accessor returns the raw field, or
\* None when it is missing, without raising.
C10_RecordAccessorsNeverRaise ==
    /\ (ret.op = "PostParser.record" /\ ret.out.st = "raise") =>
            obj.k = "PostParser" /\ obj.d["_post"].k # "dict"
    /\ (ret.op = "PostParser.record" /\ ret.out.st = "ok") =>
            ret.out.val.k = "PostRecord" /\ obj = ret.out.val
    /\ (ret.op \in DOMAIN RecordField /\ obj.d["_record"].k \in {"dict", "None"}) =>
            ret.out = Ok(IF obj.d["_record"] = None THEN None
                         ELSE FieldOf(obj.d["_record"], RecordField[ret.op]))

=============================================================================
